---- MODULE Spec2Model ----
(***************************************************************************)
(* Model of wasmuri-core's util module:                                    *)
(*   - region.rs   : Region, intersects_with, is_covered_by, is_inside,    *)
(*                   get_uncovered_regions                                 *)
(*   - weak_vec.rs : WeakVec / WeakMetaVec, push, for_each_cell, for_each, *)
(*                   for_each_mut                                          *)
(* Three specifications share the module:                                  *)
(*   Spec       the weak registry driven by its owner and its visitors     *)
(*   SpecRegion the loop of Region::get_uncovered_regions                  *)
(*   SpecPred   the pure predicates of Region applied to pairs of regions  *)
(***************************************************************************)
EXTENDS Integers, Sequences, FiniteSets

VARIABLES
    \* ---- weak_vec.rs ----
    variant,            \* "WeakVec" or "WeakMetaVec": the registry type in use
    vec,                \* the registry's vec field
    strong,             \* strong count of every Rc<RefCell<T>> allocation
    outer,              \* RefCell borrow held by call sites outside the registry
    pc,                 \* where the owner of the registry is
    kind,               \* which for_each* call is running (or ran last)
    idx,                \* position of drain_filter in vec (1-based)
    held,               \* borrow held by the running closure
    visited,            \* visitor invocations of the current / last call
    callVec,            \* vec as it was when the current / last call started
    callAlive,          \* cells alive when the current / last call started
    gone,               \* ids of entries removed on a visitor's request
    nextId,             \* number of pushes so far + 1
    pushedCell,         \* id -> the weak handle given to that push
    metaOf,             \* id -> the metadata given to that push, as last modified,
                        \* while the entry is in vec
    \* ---- region.rs: get_uncovered_regions ----
    this,               \* self
    uncovered_regions,  \* the working list
    covered,            \* points of self inside any cover processed so far
    n_regions,          \* number of covers processed so far
    \* ---- region.rs: predicates ----
    arg_a, arg_b,       \* the two regions a predicate is applied to
    res                 \* the results of the predicates, once applied

regVars == <<variant, vec, strong, outer, pc, kind, idx, held, visited,
             callVec, callAlive, gone, nextId, pushedCell, metaOf>>
rgnVars == <<this, uncovered_regions, covered, n_regions>>
prdVars == <<arg_a, arg_b, res>>
vars == <<regVars, rgnVars, prdVars>>

\* ------------------------------------------------------------------ bounds
GridMax == 2        \* coordinates range over 0..GridMax
MaxCovers == 2      \* covers processed by get_uncovered_regions
NumCells == 2       \* Rc<RefCell<T>> allocations
MaxPush == 3        \* pushes into the registry
MaxStrong == 2      \* strong holders of one allocation outside the registry
MaxMeta == 1        \* metadata values are 0..MaxMeta

None == [none |-> TRUE]

\* ================================================================ region.rs
Coord == 0..GridMax
Points == Coord \X Coord

Region(min_x, min_y, max_x, max_y) ==
    [min_x |-> min_x, min_y |-> min_y, max_x |-> max_x, max_y |-> max_y]

\* Regions with min <= max on both axes
WellFormed(r) == r.min_x <= r.max_x /\ r.min_y <= r.max_y

AllRegions ==
    {Region(a, b, c, d) : a \in Coord, b \in Coord, c \in Coord, d \in Coord}

Regions == {r \in AllRegions : WellFormed(r)}

i32_max(a, b) == IF a >= b THEN a ELSE b
i32_min(a, b) == IF a <= b THEN a ELSE b

\* intersects_with with strict comparisons: touching regions do not intersect
intersects_with_strict(self, other) ==
    /\ self.min_x < other.max_x
    /\ self.min_y < other.max_y
    /\ other.min_x < self.max_x
    /\ other.min_y < self.max_y

intersects_with(self, other) ==
    /\ self.min_x <= other.max_x
    /\ self.min_y <= other.max_y
    /\ other.min_x <= self.max_x
    /\ other.min_y <= self.max_y

\* is_covered_by with strict containment
is_covered_by_strict(self, cover) ==
    /\ self.min_x > cover.min_x
    /\ self.min_y > cover.min_y
    /\ self.max_x < cover.max_x
    /\ self.max_y < cover.max_y

is_covered_by(self, cover) ==
    /\ self.min_x >= cover.min_x
    /\ self.min_y >= cover.min_y
    /\ self.max_x <= cover.max_x
    /\ self.max_y <= cover.max_y

is_inside(self, point) ==
    /\ point[1] >= self.min_x
    /\ point[1] <= self.max_x
    /\ point[2] >= self.min_y
    /\ point[2] <= self.max_y

get_width(self) == self.max_x - self.min_x + 1
get_height(self) == self.max_y - self.min_y + 1

\* The left region pushed also when nothing is left of the cover
LeftRegion_always(uncovered, cover) ==
    IF uncovered.min_x <= cover.min_x
    THEN <<Region(uncovered.min_x, uncovered.min_y, cover.min_x - 1, uncovered.max_y)>>
    ELSE <<>>

\* The pushes to uncovered_to_add made for one partially overlapping rectangle
LeftRegion(uncovered, cover) ==
    IF uncovered.min_x < cover.min_x
    THEN <<Region(uncovered.min_x, uncovered.min_y, cover.min_x - 1, uncovered.max_y)>>
    ELSE <<>>

\* The right region starting on the cover's last column
RightRegion_off_by_one(uncovered, cover) ==
    IF uncovered.max_x > cover.max_x
    THEN <<Region(cover.max_x, uncovered.min_y, uncovered.max_x, uncovered.max_y)>>
    ELSE <<>>

RightRegion(uncovered, cover) ==
    IF uncovered.max_x > cover.max_x
    THEN <<Region(cover.max_x + 1, uncovered.min_y, uncovered.max_x, uncovered.max_y)>>
    ELSE <<>>

\* The below region spanning the full width of the working rectangle
BelowRegion_full_width(uncovered, cover) ==
    IF uncovered.min_y < cover.min_y
    THEN <<Region(uncovered.min_x, uncovered.min_y, uncovered.max_x, cover.min_y - 1)>>
    ELSE <<>>

BelowRegion(uncovered, cover) ==
    IF uncovered.min_y < cover.min_y
    THEN <<Region(i32_max(cover.min_x, uncovered.min_x), uncovered.min_y,
                  i32_min(cover.max_x, uncovered.max_x), cover.min_y - 1)>>
    ELSE <<>>

\* The above region pushed also when nothing is left above the cover
AboveRegion_always(uncovered, cover) ==
    IF uncovered.max_y >= cover.max_y
    THEN <<Region(i32_max(cover.min_x, uncovered.min_x), cover.max_y + 1,
                  i32_min(cover.max_x, uncovered.max_x), uncovered.max_y)>>
    ELSE <<>>

AboveRegion(uncovered, cover) ==
    IF uncovered.max_y > cover.max_y
    THEN <<Region(i32_max(cover.min_x, uncovered.min_x), cover.max_y + 1,
                  i32_min(cover.max_x, uncovered.max_x), uncovered.max_y)>>
    ELSE <<>>

\* The four pushes made in another order: below before right
SplitRegion_below_first(uncovered, cover) ==
    LeftRegion(uncovered, cover) \o BelowRegion(uncovered, cover)
        \o RightRegion(uncovered, cover) \o AboveRegion(uncovered, cover)

SplitRegion(uncovered, cover) ==
    LeftRegion(uncovered, cover) \o RightRegion(uncovered, cover)
        \o BelowRegion(uncovered, cover) \o AboveRegion(uncovered, cover)

\* The closure given to drain_filter: <<remove?, pushes to uncovered_to_add>>
DrainPredicate(uncovered, cover) ==
    IF is_covered_by(uncovered, cover) THEN <<TRUE, <<>>>>
    ELSE IF intersects_with(uncovered, cover)
         THEN <<TRUE, SplitRegion(uncovered, cover)>>
         ELSE <<FALSE, <<>>>>

RECURSIVE UncoveredToAdd(_, _)
UncoveredToAdd(list, cover) ==
    IF list = <<>> THEN <<>>
    ELSE DrainPredicate(Head(list), cover)[2] \o UncoveredToAdd(Tail(list), cover)

Retained(list, cover) ==
    SelectSeq(list, LAMBDA u : ~DrainPredicate(u, cover)[1])

\* One iteration of `for region in regions`: drain_filter, then append
ProcessRegion(list, cover) ==
    Retained(list, cover) \o UncoveredToAdd(list, cover)

RECURSIVE get_uncovered_regions_from(_, _)
get_uncovered_regions_from(list, regions) ==
    IF regions = <<>> THEN list
    ELSE get_uncovered_regions_from(ProcessRegion(list, Head(regions)), Tail(regions))

get_uncovered_regions(self, regions) ==
    get_uncovered_regions_from(<<self>>, regions)

PointsOf(r) == {p \in Points : is_inside(r, p)}

\* ---- SpecRegion: the loop of get_uncovered_regions, one cover per step
RegionInit ==
    /\ this \in Regions
    /\ uncovered_regions = <<this>>
    /\ covered = {}
    /\ n_regions = 0

NextRegion(cover) ==
    /\ n_regions < MaxCovers
    /\ uncovered_regions' = ProcessRegion(uncovered_regions, cover)
    /\ covered' = covered \cup (PointsOf(cover) \cap PointsOf(this))
    /\ n_regions' = n_regions + 1
    /\ UNCHANGED this
    /\ UNCHANGED <<regVars, prdVars>>

\* ---- SpecPred: intersects_with and is_covered_by applied to a pair
PredInit ==
    /\ arg_a \in Regions
    /\ arg_b \in Regions
    /\ res = None

ApplyPredicates ==
    /\ res = None
    /\ res' = [intersects |-> intersects_with(arg_a, arg_b),
               intersects_rev |-> intersects_with(arg_b, arg_a),
               covered_by |-> is_covered_by(arg_a, arg_b),
               covered_by_self |-> is_covered_by(arg_a, arg_a)]
    /\ UNCHANGED <<arg_a, arg_b>>
    /\ UNCHANGED <<regVars, rgnVars>>

\* Values of the variables a specification does not use
RegIdle ==
    /\ variant = "WeakVec"
    /\ vec = <<>>
    /\ strong = <<>>
    /\ outer = <<>>
    /\ pc = "idle"
    /\ kind = "none"
    /\ idx = 1
    /\ held = None
    /\ visited = <<>>
    /\ callVec = <<>>
    /\ callAlive = {}
    /\ gone = {}
    /\ nextId = 1
    /\ pushedCell = <<>>
    /\ metaOf = <<>>

RgnIdle ==
    /\ this = None
    /\ uncovered_regions = <<>>
    /\ covered = {}
    /\ n_regions = 0

PrdIdle ==
    /\ arg_a = None
    /\ arg_b = None
    /\ res = None

InitRegion == RegionInit /\ RegIdle /\ PrdIdle
StepRegion == \E cover \in Regions : NextRegion(cover)
SpecRegion == InitRegion /\ [][StepRegion]_vars

\* ---- SpecStep: one iteration of the loop on a working list of one rectangle
\* (arg_a) and one cover (arg_b)
ApplyStep ==
    /\ res = None
    /\ res' = [out |-> ProcessRegion(<<arg_a>>, arg_b)]
    /\ UNCHANGED <<arg_a, arg_b>>
    /\ UNCHANGED <<regVars, rgnVars>>

InitStep == PredInit /\ RegIdle /\ RgnIdle
StepStep == ApplyStep
SpecStep == InitStep /\ [][StepStep]_vars

InitPred == PredInit /\ RegIdle /\ RgnIdle
StepPred == ApplyPredicates
SpecPred == InitPred /\ [][StepPred]_vars

\* ============================================================== weak_vec.rs
Cells == 1..NumCells
Meta == 0..MaxMeta
Kinds == {"for_each_cell", "for_each", "for_each_mut"}
Variants == {"WeakVec", "WeakMetaVec"}

\* An element of WeakVec::vec: a Weak<RefCell<T>>; id tells the pushes apart
WeakCell(id, weak_cell) == [id |-> id, weak_cell |-> weak_cell]

\* A handle that keeps a default value instead of the metadata it was given
WeakMetaHandle_default(id, weak_cell, metadata) ==
    [id |-> id, weak_cell |-> weak_cell, metadata |-> 0]

\* An element of WeakMetaVec::vec
WeakMetaHandle(id, weak_cell, metadata) ==
    [id |-> id, weak_cell |-> weak_cell, metadata |-> metadata]

\* Weak::upgrade that answers Some for a destroyed target too
upgrade_always(weak_cell) == TRUE

\* Liveness looked up once, when the call starts, instead of at each entry
upgrade_at_call(weak_cell) == weak_cell \in callAlive

\* Weak::upgrade answers Some(cell) iff a strong holder is left
upgrade(weak_cell) == strong[weak_cell] > 0

\* Removal that fills the hole with the last element (Vec::swap_remove)
SwapRemove(s, i) ==
    IF i = Len(s) THEN SubSeq(s, 1, i - 1)
    ELSE SubSeq(s, 1, i - 1) \o <<s[Len(s)]>> \o SubSeq(s, i + 1, Len(s) - 1)

\* drain_filter removes the element its predicate answered true for and shifts
\* the elements behind it one place to the front
RemoveAt(s, i) == SubSeq(s, 1, i - 1) \o SubSeq(s, i + 1, Len(s))

\* The RefCell's borrow state: -1 exclusively borrowed, n >= 0 shared borrows
HeldFlag(c) ==
    IF held = None \/ held.cell # c THEN 0
    ELSE IF held.mode = "mut" THEN -1 ELSE 1

BorrowFlag(c) == outer[c] + HeldFlag(c)

\* borrow_mut that does not look at the borrow state
borrow_mut_unchecked(c) == TRUE

\* RefCell::borrow_mut succeeds iff the cell is not borrowed at all
borrow_mut_ok(c) == BorrowFlag(c) = 0

\* RefCell::borrow succeeds iff the cell is not exclusively borrowed
borrow_ok(c) == BorrowFlag(c) >= 0

\* A wrapper closure that asks for the removal of the entry it visited
WrapperResult_remove == TRUE

\* What the closures of for_each and for_each_mut return to for_each_cell
WrapperResult == FALSE

\* What a visitor is invoked with
Visit(entry) ==
    IF variant = "WeakMetaVec"
    THEN [id |-> entry.id, cell |-> entry.weak_cell, metadata |-> entry.metadata]
    ELSE [id |-> entry.id, cell |-> entry.weak_cell]

Outside == pc \in {"idle", "done"}

\* The owner goes on after a call: what was recorded about the call is dropped
Leave ==
    /\ pc' = "idle"
    /\ kind' = "none"
    /\ idx' = 1
    /\ visited' = <<>>
    /\ callVec' = <<>>
    /\ callAlive' = {}

RegInit ==
    /\ variant \in Variants
    /\ vec = <<>>
    /\ strong = [c \in Cells |-> 1]
    /\ outer = [c \in Cells |-> 0]
    /\ pc = "idle"
    /\ kind = "none"
    /\ idx = 1
    /\ held = None
    /\ visited = <<>>
    /\ callVec = <<>>
    /\ callAlive = {}
    /\ gone = {}
    /\ nextId = 1
    /\ pushedCell = <<>>
    /\ metaOf = <<>>

\* ---- the owner of the registry and of the cells, between calls
push(element) ==
    /\ Outside
    /\ variant = "WeakVec"
    /\ nextId <= MaxPush
    /\ vec' = Append(vec, WeakCell(nextId, element))
    /\ nextId' = nextId + 1
    /\ pushedCell' = Append(pushedCell, element)
    /\ metaOf' = Append(metaOf, None)
    /\ Leave
    /\ UNCHANGED <<variant, strong, outer, held, gone>>
    /\ UNCHANGED <<rgnVars, prdVars>>

meta_push(weak_cell, metadata) ==
    /\ Outside
    /\ variant = "WeakMetaVec"
    /\ nextId <= MaxPush
    /\ vec' = Append(vec, WeakMetaHandle(nextId, weak_cell, metadata))
    /\ nextId' = nextId + 1
    /\ pushedCell' = Append(pushedCell, weak_cell)
    /\ metaOf' = Append(metaOf, metadata)
    /\ Leave
    /\ UNCHANGED <<variant, strong, outer, held, gone>>
    /\ UNCHANGED <<rgnVars, prdVars>>

\* Rc::clone by a holder outside the registry
rc_clone(c) ==
    /\ Outside
    /\ strong[c] >= 1
    /\ strong[c] < MaxStrong
    /\ strong' = [strong EXCEPT ![c] = @ + 1]
    /\ Leave
    /\ UNCHANGED <<variant, vec, outer, held, gone, nextId, pushedCell, metaOf>>
    /\ UNCHANGED <<rgnVars, prdVars>>

\* drop of an Rc held outside the registry; a borrow keeps the Rc it was
\* taken through in place
rc_drop(c) ==
    /\ Outside
    /\ strong[c] >= 1
    /\ outer[c] # 0 => strong[c] >= 2
    /\ strong' = [strong EXCEPT ![c] = @ - 1]
    /\ Leave
    /\ UNCHANGED <<variant, vec, outer, held, gone, nextId, pushedCell, metaOf>>
    /\ UNCHANGED <<rgnVars, prdVars>>

\* A call site outside the registry takes or ends a borrow of a cell
outer_borrow(c, flag) ==
    /\ Outside
    /\ strong[c] >= 1
    /\ outer[c] = 0
    /\ outer' = [outer EXCEPT ![c] = flag]
    /\ Leave
    /\ UNCHANGED <<variant, vec, strong, held, gone, nextId, pushedCell, metaOf>>
    /\ UNCHANGED <<rgnVars, prdVars>>

outer_release(c) ==
    /\ Outside
    /\ outer[c] # 0
    /\ outer' = [outer EXCEPT ![c] = 0]
    /\ Leave
    /\ UNCHANGED <<variant, vec, strong, held, gone, nextId, pushedCell, metaOf>>
    /\ UNCHANGED <<rgnVars, prdVars>>

\* ---- for_each_cell / for_each / for_each_mut
\* The call: drain_filter starts at the first element
call(k) ==
    /\ Outside
    /\ pc' = "iter"
    /\ kind' = k
    /\ idx' = 1
    /\ held' = None
    /\ visited' = <<>>
    /\ callVec' = vec
    /\ callAlive' = {c \in Cells : strong[c] > 0}
    /\ UNCHANGED <<variant, vec, strong, outer, gone, nextId, pushedCell, metaOf>>
    /\ UNCHANGED <<rgnVars, prdVars>>

\* upgrade() answered None: the predicate answers true, the entry is removed
resolve_dead ==
    /\ pc = "iter"
    /\ idx <= Len(vec)
    /\ ~upgrade(vec[idx].weak_cell)
    /\ vec' = RemoveAt(vec, idx)
    /\ metaOf' = [metaOf EXCEPT ![vec[idx].id] = None]
    /\ UNCHANGED <<variant, strong, outer, pc, kind, idx, held, visited, callVec,
                   callAlive, gone, nextId, pushedCell>>
    /\ UNCHANGED <<rgnVars, prdVars>>

\* upgrade() answered Some(cell): for_each_cell calls its closure with the cell
for_each_cell_closure ==
    /\ pc = "iter"
    /\ kind = "for_each_cell"
    /\ idx <= Len(vec)
    /\ upgrade(vec[idx].weak_cell)
    /\ strong' = [strong EXCEPT ![vec[idx].weak_cell] = @ + 1]
    /\ visited' = Append(visited, Visit(vec[idx]))
    /\ pc' = "visiting"
    /\ UNCHANGED <<variant, vec, outer, kind, idx, held, callVec, callAlive,
                   gone, nextId, pushedCell, metaOf>>
    /\ UNCHANGED <<rgnVars, prdVars>>

\* upgrade() answered Some(cell): the closure of for_each borrows the cell and
\* calls the visitor; a failing borrow panics
for_each_closure ==
    /\ pc = "iter"
    /\ kind = "for_each"
    /\ idx <= Len(vec)
    /\ upgrade(vec[idx].weak_cell)
    /\ IF borrow_ok(vec[idx].weak_cell)
       THEN /\ strong' = [strong EXCEPT ![vec[idx].weak_cell] = @ + 1]
            /\ held' = [cell |-> vec[idx].weak_cell, mode |-> "shared"]
            /\ visited' = Append(visited, Visit(vec[idx]))
            /\ pc' = "visiting"
       ELSE /\ pc' = "panicked"
            /\ UNCHANGED <<strong, held, visited>>
    /\ UNCHANGED <<variant, vec, outer, kind, idx, callVec, callAlive, gone,
                   nextId, pushedCell, metaOf>>
    /\ UNCHANGED <<rgnVars, prdVars>>

\* The same for for_each_mut, which borrows the cell exclusively
for_each_mut_closure ==
    /\ pc = "iter"
    /\ kind = "for_each_mut"
    /\ idx <= Len(vec)
    /\ upgrade(vec[idx].weak_cell)
    /\ IF borrow_mut_ok(vec[idx].weak_cell)
       THEN /\ strong' = [strong EXCEPT ![vec[idx].weak_cell] = @ + 1]
            /\ held' = [cell |-> vec[idx].weak_cell, mode |-> "mut"]
            /\ visited' = Append(visited, Visit(vec[idx]))
            /\ pc' = "visiting"
       ELSE /\ pc' = "panicked"
            /\ UNCHANGED <<strong, held, visited>>
    /\ UNCHANGED <<variant, vec, outer, kind, idx, callVec, callAlive, gone,
                   nextId, pushedCell, metaOf>>
    /\ UNCHANGED <<rgnVars, prdVars>>

\* ---- what a visitor does while it runs
\* The visitor of for_each_cell borrows the cell it was given
visitor_borrow(mode) ==
    /\ pc = "visiting"
    /\ kind = "for_each_cell"
    /\ held = None
    /\ IF (IF mode = "mut" THEN borrow_mut_ok(vec[idx].weak_cell)
                           ELSE borrow_ok(vec[idx].weak_cell))
       THEN /\ held' = [cell |-> vec[idx].weak_cell, mode |-> mode]
            /\ pc' = pc
       ELSE /\ pc' = "panicked"
            /\ held' = held
    /\ UNCHANGED <<variant, vec, strong, outer, kind, idx, visited, callVec,
                   callAlive, gone, nextId, pushedCell, metaOf>>
    /\ UNCHANGED <<rgnVars, prdVars>>

\* The visitor drops an Rc it owns; the upgraded Rc of the entry being visited
\* and an Rc a borrow was taken through stay
visitor_drop(c) ==
    /\ pc = "visiting"
    /\ strong[c] > (IF c = vec[idx].weak_cell THEN 1 ELSE 0)
                    + (IF outer[c] # 0 THEN 1 ELSE 0)
    /\ strong' = [strong EXCEPT ![c] = @ - 1]
    /\ UNCHANGED <<variant, vec, outer, pc, kind, idx, held, visited, callVec,
                   callAlive, gone, nextId, pushedCell, metaOf>>
    /\ UNCHANGED <<rgnVars, prdVars>>

\* The visitor writes the metadata it was given by &mut
visitor_set_meta(m) ==
    /\ pc = "visiting"
    /\ variant = "WeakMetaVec"
    /\ kind \in {"for_each_cell", "for_each_mut"}
    /\ vec[idx].metadata # m
    /\ vec' = [vec EXCEPT ![idx].metadata = m]
    /\ metaOf' = [metaOf EXCEPT ![vec[idx].id] = m]
    /\ UNCHANGED <<variant, strong, outer, pc, kind, idx, held, visited, callVec,
                   callAlive, gone, nextId, pushedCell>>
    /\ UNCHANGED <<rgnVars, prdVars>>

\* The closure returns: its borrow and the upgraded Rc are dropped, and
\* drain_filter removes the entry or moves on
closure_return(remove) ==
    /\ pc = "visiting"
    /\ kind # "for_each_cell" => remove = WrapperResult
    /\ held' = None
    /\ strong' = [strong EXCEPT ![vec[idx].weak_cell] = @ - 1]
    /\ IF remove
       THEN /\ vec' = RemoveAt(vec, idx)
            /\ gone' = gone \cup {vec[idx].id}
            /\ metaOf' = [metaOf EXCEPT ![vec[idx].id] = None]
            /\ idx' = idx
       ELSE /\ idx' = idx + 1
            /\ UNCHANGED <<vec, gone, metaOf>>
    /\ pc' = "iter"
    /\ UNCHANGED <<variant, outer, kind, visited, callVec, callAlive, nextId,
                   pushedCell>>
    /\ UNCHANGED <<rgnVars, prdVars>>

\* drain_filter reached the end of vec: the call returns
call_return ==
    /\ pc = "iter"
    /\ idx > Len(vec)
    /\ pc' = "done"
    /\ UNCHANGED <<variant, vec, strong, outer, kind, idx, held, visited, callVec,
                   callAlive, gone, nextId, pushedCell, metaOf>>
    /\ UNCHANGED <<rgnVars, prdVars>>

Init == RegInit /\ RgnIdle /\ PrdIdle

Next ==
    \/ \E c \in Cells : push(c)
    \/ \E c \in Cells, m \in Meta : meta_push(c, m)
    \/ \E c \in Cells : rc_clone(c)
    \/ \E c \in Cells : rc_drop(c)
    \/ \E c \in Cells, flag \in {-1, 1} : outer_borrow(c, flag)
    \/ \E c \in Cells : outer_release(c)
    \/ \E k \in Kinds : call(k)
    \/ resolve_dead
    \/ for_each_cell_closure
    \/ for_each_closure
    \/ for_each_mut_closure
    \/ \E mode \in {"shared", "mut"} : visitor_borrow(mode)
    \/ \E c \in Cells : visitor_drop(c)
    \/ \E m \in Meta : visitor_set_meta(m)
    \/ \E remove \in BOOLEAN : closure_return(remove)
    \/ call_return

Spec == Init /\ [][Next]_vars

\* ================================================================ properties
\* ---- WeakVec / WeakMetaVec (checked under Spec)

IdSeq(s) == [k \in DOMAIN s |-> s[k].id]
IdsOf(s) == {s[k].id : k \in DOMAIN s}
Alive == {c \in Cells : strong[c] > 0}

\* No target was destroyed while the call ran: destructions happened between calls
NoDeathDuringCall == Alive = callAlive

\* The entries the call started with whose target was alive then
Survivors == SelectSeq(callVec, LAMBDA e : e.weak_cell \in callAlive)

\* C1: after pushes and destructions between calls, a for_each* call invokes
\* the visitor once for each entry whose target is alive, never for a destroyed
\* one, in the order of the pushes: N - K invocations in all.
C1_VisitsSurvivors ==
    (pc = "done" /\ NoDeathDuringCall) =>
        /\ IdSeq(visited) = IdSeq(Survivors)
        /\ \A k \in DOMAIN visited : visited[k].cell = Survivors[k].weak_cell
        /\ Len(visited) = Len(callVec)
              - Cardinality({k \in DOMAIN callVec : callVec[k].weak_cell \notin callAlive})

\* Three entries were pushed, the target of the middle one was destroyed before
\* the call, and the call visited the first and the third, in that order.
C1_Witness ==
    /\ pc = "done"
    /\ NoDeathDuringCall
    /\ Len(callVec) = 3
    /\ callVec[2].weak_cell \notin callAlive
    /\ IdSeq(visited) = <<callVec[1].id, callVec[3].id>>

\* C4: an entry a for_each_cell visitor asked to remove while its target was
\* alive is absent from the registry and is never visited again, and its
\* removal leaves every other entry in place, in the same order.
C4_RemovedStaysRemoved ==
    [][/\ \A id \in gone' : id \notin IdsOf(vec')
       /\ Len(visited') > Len(visited) => visited'[Len(visited')].id \notin gone
       /\ gone' # gone =>
            /\ kind = "for_each_cell"
            /\ \A id \in gone' \ gone : strong[pushedCell[id]] > 0
            /\ vec' = SelectSeq(vec, LAMBDA e : e.id \notin gone')
            /\ Len(vec') = Len(vec) - 1]_vars

\* An entry was removed on request, its target is still alive, and a later
\* call, started without it, visited two other entries.
C4_Witness ==
    /\ pc = "done"
    /\ \E id \in gone : id \notin IdsOf(callVec) /\ strong[pushedCell[id]] > 0
    /\ Len(visited) = 2

\* C5: in WeakMetaVec every visitor invocation receives the cell and the
\* metadata of one and the same push (the metadata as last modified by earlier
\* visitors of that entry), and the entries of the registry keep that pairing.
C5_MetadataPairing ==
    [][variant = "WeakMetaVec" =>
        /\ \A k \in DOMAIN vec' :
              /\ vec'[k].weak_cell = pushedCell'[vec'[k].id]
              /\ vec'[k].metadata = metaOf'[vec'[k].id]
        /\ Len(visited') > Len(visited) =>
              LET v == visited'[Len(visited')]
              IN /\ v.cell = pushedCell[v.id]
                 /\ v.metadata = metaOf[v.id]]_vars

\* A visitor of a WeakMetaVec is running on the entry that moved to the front
\* when the entry before it was removed in this call, and entries with
\* different metadata are in the registry.
C5_Witness ==
    /\ variant = "WeakMetaVec"
    /\ pc = "visiting"
    /\ idx = 1
    /\ Len(callVec) = 3
    /\ Len(vec) = 2
    /\ vec[1].id = callVec[2].id
    /\ vec[1].metadata # vec[2].metadata
    /\ vec[1].metadata # callVec[2].metadata

\* Positions of the entries the call started with that left the registry
RemovedByCall == {k \in DOMAIN callVec : callVec[k].id \notin IdsOf(vec)}

\* C6: a call to for_each or for_each_mut removes exactly the entries whose
\* target is dead when their resolution is attempted and never an entry whose
\* target is alive; the entries left were each visited, in the same order, and
\* are the ones the next call starts with.
C6_OnlyDeadPruned ==
    (pc = "done" /\ kind \in {"for_each", "for_each_mut"}) =>
        /\ \A k \in RemovedByCall : strong[callVec[k].weak_cell] = 0
        /\ \A k \in DOMAIN callVec :
              callVec[k].weak_cell \notin callAlive => k \in RemovedByCall
        /\ IdSeq(vec) = IdSeq(SelectSeq(callVec, LAMBDA e : e.id \in IdsOf(vec)))
        /\ IdSeq(visited) = IdSeq(vec)

\* A call to for_each_mut pruned one dead entry out of three and visited the
\* two entries left, whose targets are alive.
C6_Witness ==
    /\ pc = "done"
    /\ kind = "for_each_mut"
    /\ Len(callVec) = 3
    /\ Len(vec) = 2
    /\ Len(visited) = 2
    /\ \A k \in DOMAIN vec : strong[vec[k].weak_cell] > 0

\* The cell of the entry drain_filter is at
CurrentCell == vec[idx].weak_cell

C11_LivenessAtResolution ==
    [][/\ (pc = "iter" /\ idx <= Len(vec) /\ strong[CurrentCell] = 0) =>
              /\ vec' = SelectSeq(vec, LAMBDA e : e.id # vec[idx].id)
              /\ Len(vec') = Len(vec) - 1
              /\ visited' = visited
              /\ pc' = "iter"
       /\ (pc = "iter" /\ idx <= Len(vec) /\ strong[CurrentCell] > 0) =>
              \/ pc' = "panicked" /\ visited' = visited /\ vec' = vec
              \/ /\ Len(visited') = Len(visited) + 1
                 /\ SubSeq(visited', 1, Len(visited)) = visited
                 /\ visited'[Len(visited')].id = vec[idx].id
                 /\ vec' = vec
       /\ pc = "visiting" =>
              /\ visited' = visited
              /\ Len(vec') < Len(vec) => gone' # gone
       /\ (Len(vec') < Len(vec) /\ gone' = gone) =>
              /\ pc = "iter"
              /\ strong[CurrentCell] = 0
       /\ \A i, j \in DOMAIN visited' :
              i # j => visited'[i].id # visited'[j].id]_vars

\* A call over two entries with live targets returned: the visitor of the
\* first entry destroyed the target of the second, which was pruned without a
\* visit, and dropped the last outside holder of its own target, whose entry
\* was visited and is still in the registry with a dead target.
C11_Witness ==
    /\ pc = "done"
    /\ Len(callVec) = 2
    /\ callVec[1].weak_cell \in callAlive
    /\ callVec[2].weak_cell \in callAlive
    /\ callVec[1].weak_cell # callVec[2].weak_cell
    /\ IdSeq(visited) = <<callVec[1].id>>
    /\ IdSeq(vec) = <<callVec[1].id>>
    /\ strong[callVec[1].weak_cell] = 0
    /\ callVec[2].id \notin gone

\* ---- Region::get_uncovered_regions (checked under SpecRegion)

\* Points one step beyond the grid too: a wrong bound may leave the grid
ExtPoints == (-1..(GridMax + 1)) \X (-1..(GridMax + 1))

InResult(p) ==
    \E i \in DOMAIN uncovered_regions : is_inside(uncovered_regions[i], p)

ResultPoints == {p \in ExtPoints : InResult(p)}

\* C2: get_uncovered_regions is exact: a point lies in some rectangle of the
\* returned list if and only if it lies in self and in none of the covers.
C2_Exact ==
    \A p \in ExtPoints :
        InResult(p) <=> (is_inside(this, p) /\ p \notin covered)

\* Two covers were processed, some of self is covered, some is not, and the
\* remainder is split over at least three rectangles.
C2_Witness ==
    /\ n_regions = 2
    /\ covered # {}
    /\ Len(uncovered_regions) >= 3

\* C3: the rectangles of the returned list are pairwise non-overlapping: no
\* point lies in two rectangles at different positions of the list.
C3_Disjoint ==
    \A i, j \in DOMAIN uncovered_regions :
        i # j => ~\E p \in ExtPoints :
                    is_inside(uncovered_regions[i], p) /\ is_inside(uncovered_regions[j], p)

\* A cover strictly inside self left all four remainders (left, right, below,
\* above), which meet at the corners of the cover.
C3_Witness ==
    /\ n_regions = 1
    /\ Len(uncovered_regions) = 4

\* S can be partitioned into at most k rectangles. The least point of S (lowest
\* row first, then leftmost) is the bottom-left corner of the rectangle holding it.
LeastPoint(S) ==
    CHOOSE p \in S : \A q \in S : p[2] < q[2] \/ (p[2] = q[2] /\ p[1] <= q[1])

RECURSIVE CanPartition(_, _)
CanPartition(S, k) ==
    \/ S = {}
    \/ /\ k > 0
       /\ LET p == LeastPoint(S)
          IN \E r \in Regions :
                /\ r.min_x = p[1]
                /\ r.min_y = p[2]
                /\ PointsOf(r) \subseteq S
                /\ CanPartition(S \ PointsOf(r), k - 1)

\* Fewer disjoint rectangles than the returned list holds have the same union
FewerSuffice ==
    /\ Len(uncovered_regions) > 0
    /\ CanPartition(ResultPoints, Len(uncovered_regions) - 1)

\* C8 as stated: the returned list is a minimal set of disjoint rectangles: no
\* list of pairwise disjoint rectangles with the same union has fewer rectangles.
C8_Minimal == ~FewerSuffice

\* C8 as amended: the returned list is minimal when at most one cover was given.
C8_MinimalSingleCover ==
    n_regions <= 1 => ~FewerSuffice

\* One cover was processed and it split self into several rectangles.
C8_Witness ==
    /\ n_regions = 1
    /\ Len(uncovered_regions) >= 3

\* C13: empty regions are never emitted: after each processed cover every
\* rectangle of the working list has min_x <= max_x and min_y <= max_y, that
\* is a width and a height of at least 1.
C13_NoEmptyRegion ==
    \A i \in DOMAIN uncovered_regions :
        /\ uncovered_regions[i].min_x <= uncovered_regions[i].max_x
        /\ uncovered_regions[i].min_y <= uncovered_regions[i].max_y
        /\ get_width(uncovered_regions[i]) >= 1
        /\ get_height(uncovered_regions[i]) >= 1

\* Two covers were processed and left several rectangles, one of them a single
\* point: the smallest remainder that is not empty.
C13_Witness ==
    /\ n_regions = 2
    /\ Len(uncovered_regions) >= 2
    /\ \E i \in DOMAIN uncovered_regions :
          /\ get_width(uncovered_regions[i]) = 1
          /\ get_height(uncovered_regions[i]) = 1

\* ---- One step of get_uncovered_regions (checked under SpecStep)

\* The horizontal overlap of working rectangle W and cover C
OverlapMinX(W, C) == IF C.min_x >= W.min_x THEN C.min_x ELSE W.min_x
OverlapMaxX(W, C) == IF C.max_x <= W.max_x THEN C.max_x ELSE W.max_x

\* The remainders of W around C, each under its condition, in the fixed order
Remainders(W, C) ==
    (IF W.min_x < C.min_x
     THEN <<[min_x |-> W.min_x, max_x |-> C.min_x - 1,
             min_y |-> W.min_y, max_y |-> W.max_y]>> ELSE <<>>)
    \o (IF W.max_x > C.max_x
        THEN <<[min_x |-> C.max_x + 1, max_x |-> W.max_x,
                min_y |-> W.min_y, max_y |-> W.max_y]>> ELSE <<>>)
    \o (IF W.min_y < C.min_y
        THEN <<[min_x |-> OverlapMinX(W, C), max_x |-> OverlapMaxX(W, C),
                min_y |-> W.min_y, max_y |-> C.min_y - 1]>> ELSE <<>>)
    \o (IF W.max_y > C.max_y
        THEN <<[min_x |-> OverlapMinX(W, C), max_x |-> OverlapMaxX(W, C),
                min_y |-> C.max_y + 1, max_y |-> W.max_y]>> ELSE <<>>)

\* C12: one step replaces a working rectangle W that a cover C intersects
\* without covering it by the left, right, below and above remainders, in this
\* order and each only under its condition; a W covered by C is dropped and a
\* W that C does not intersect is kept unchanged.
C12_StepRemainders ==
    res # None =>
        res.out =
            IF PointsOf(arg_a) \subseteq PointsOf(arg_b) THEN <<>>
            ELSE IF PointsOf(arg_a) \cap PointsOf(arg_b) = {} THEN <<arg_a>>
            ELSE Remainders(arg_a, arg_b)

\* The step was applied to a cover strictly inside the working rectangle and
\* left all four remainders.
C12_Witness ==
    /\ res # None
    /\ arg_a.min_x < arg_b.min_x
    /\ arg_a.max_x > arg_b.max_x
    /\ arg_a.min_y < arg_b.min_y
    /\ arg_a.max_y > arg_b.max_y
    /\ Len(res.out) = 4

\* ---- Region predicates (checked under SpecPred)

\* C9: intersects_with is true iff some integer point lies in both closed
\* rectangles, and it is symmetric.
C9_Intersects ==
    res # None =>
        /\ res.intersects <=>
              \E p \in Points : is_inside(arg_a, p) /\ is_inside(arg_b, p)
        /\ res.intersects = res.intersects_rev

\* intersects_with answered true for two regions that share only one corner point.
C9_Witness ==
    /\ res # None
    /\ res.intersects
    /\ arg_a.max_x = arg_b.min_x
    /\ arg_a.max_y = arg_b.min_y
    /\ arg_a.min_x < arg_b.min_x
    /\ arg_a.min_y < arg_b.min_y

\* C10: is_covered_by is true iff every point inside A is inside C, and it is
\* reflexive.
C10_CoveredBy ==
    res # None =>
        /\ res.covered_by <=>
              \A p \in Points : is_inside(arg_a, p) => is_inside(arg_b, p)
        /\ res.covered_by_self

\* is_covered_by answered true for a region and a larger cover sharing an edge.
C10_Witness ==
    /\ res # None
    /\ res.covered_by
    /\ arg_a # arg_b
    /\ arg_a.min_x = arg_b.min_x

====
